---- MODULE Spec2Model ----
(***************************************************************************)
(* Loan lifecycle of src/src/services/loanService.js over the Loan and     *)
(* Item collections.                                                       *)
(*                                                                         *)
(* A service call runs between awaits without interruption, so a step of   *)
(* the model is the synchronous code since the previous await together     *)
(* with the datastore operation it then awaits; the first step of a call   *)
(* also holds the checks made on what it read.  A call slot is one         *)
(* execution path: a service call in flight, then the setImmediate         *)
(* callback it leaves behind.  A path that calls a notification sink waits *)
(* for it: other paths take steps between the call of the sink and its     *)
(* end.                                                                    *)
(*                                                                         *)
(* Document.save() is Mongoose's: it writes the paths the call modified on *)
(* its in-memory document ($set of the dirty paths), not the whole         *)
(* document, and it is atomic for one document.  Whether a path set back   *)
(* to the value it was loaded with is still written depends on the         *)
(* Mongoose of the build: a save of such a path takes either course.       *)
(***************************************************************************)
EXTENDS Integers, Sequences, FiniteSets, TLC

\* ---- bounds ------------------------------------------------------------
MaxLoans == 2
MaxCalls == 2
MaxStock == 3
MaxQty == 2
NumDates == 2
SeqStock == 5
NumItems == 1
NumUsers == 2
MaxAdmins == 2

\* ---- values ------------------------------------------------------------
ItemIds == 1..NumItems
MissingItem == 0
LoanIds == 1..MaxLoans
CallIds == 1..MaxCalls
NoDate == 0
Dates == 1..NumDates
RaceDates == {NumDates}
Now == NumDates + 1
NoLoan == 0
UserIds == 1..NumUsers
Roles == {"Admin", "Usuario"}
Callers == [rol : Roles, id : UserIds]
NoEstado == ""
MailIds == 1..MaxAdmins
RaceUsers == {NumUsers}
\* how far the clock has gone on between two creations: not at all, or on
Ticks == {0, 1}
RaceTicks == {1}
Quantities == 1..MaxQty
RaceQuantities == {1}
NoUser == 0

Estados == {"Pendiente", "Aprobado", "Rechazado", "Aplazado", "Devuelto"}
RaceEstados == {"Aprobado"}
LoanFields == {"usuario", "item", "cantidad_prestamo", "estado",
               "fecha_prestamo", "fecha_estimada", "fecha_retorno",
               "createdAt"}

\* an address is the sequence of its parts; the empty one is an address unset
NoEmail == <<>>
Emails == {NoEmail, <<"a">>, <<"a", "@", "b">>, <<"a", "@", "demo.com">>}
Contains(email, part) == \E k \in 1..Len(email) : email[k] = part

\* what the code before a sink call and the sink itself can meet: whether the
\* documents looked up for the message were found, the addresses on file of
\* the recipients, and how the sending ends
SinkOutcomes == {"sent", "failed", "threw"}
SinkCases ==
    [found : BOOLEAN,
     addrs : {A \in SUBSET Emails : Cardinality(A) <= MaxAdmins},
     outcome : SinkOutcomes]
RaceSinks ==
    {[found |-> TRUE, addrs |-> {<<"a", "@", "b">>}, outcome |-> "threw"]}
SvcSinks == {s \in SinkCases : s.addrs \subseteq {<<"a", "@", "b">>}}
MailSinks ==
    {s \in SinkCases :
        /\ s.outcome # "failed"
        /\ s.addrs \in {{}, {<<"a">>}, {<<"a", "@", "b">>},
                         {<<"a">>, <<"a", "@", "b">>},
                         {<<"a", "@", "b">>, <<"a", "@", "demo.com">>}}}

\* items, loans: the two collections.  calls: the calls in flight.
\* reply: what the last step handed to a caller, if anything.
\* sink: the call of the notification sink made by the last step, if any.
\* view: what the last step, if a read, gave to whom.
\* mails: the sendEmail calls in flight.
\* inicial, restocked: history, not program state: the availability every
\* item started with, and the loans on whose behalf a return has raised it.
VARIABLES items, loans, calls, reply, sink, view, mails, inicial, restocked
vars == <<items, loans, calls, reply, sink, view, mails, inicial, restocked>>

\* ---- datastore ---------------------------------------------------------
\* what the Loan schema gives a new document: the initial state, no dates,
\* and the time of its creation once it is stored
LoanDefaults ==
    [estado |-> "Pendiente", fecha_prestamo |-> NoDate,
     fecha_estimada |-> NoDate, fecha_retorno |-> NoDate,
     createdAt |-> NoDate]

NewLoan(u, item, q) ==
    [f \in LoanFields |->
        IF f = "usuario" THEN u
        ELSE IF f = "item" THEN item
        ELSE IF f = "cantidad_prestamo" THEN q
        ELSE LoanDefaults[f]]

\* placeholders of a call that holds no document
NullDoc == NewLoan(NoUser, MissingItem, 0)
NullItem == [cantidad_disponible |-> 0, cantidad_total_stock |-> 0]

\* what findByIdAndDelete leaves of a document: its id finds nothing; the
\* time it was created at stays behind the clock
Removed == [NullDoc EXCEPT !.estado = "Removed"]
Deleted(doc) == [Removed EXCEPT !.createdAt = doc.createdAt]

LoanExists(l) == l \in 1..Len(loans) /\ loans[l].estado # "Removed"

\* the document as stored at time t
Stamped(doc, t) == [doc EXCEPT !.createdAt = t]

\* the time of the last creation
RECURSIVE ClockUpTo(_)
ClockUpTo(n) ==
    IF n = 0 THEN 0
    ELSE IF loans[n].createdAt > ClockUpTo(n - 1) THEN loans[n].createdAt
    ELSE ClockUpTo(n - 1)

Clock == ClockUpTo(Len(loans))
ItemExists(i) == i \in DOMAIN items

Dirty(old, new) == {f \in LoanFields : old[f] # new[f]}

SaveLoan(stored, doc, dirty) ==
    [f \in LoanFields |-> IF f \in dirty THEN doc[f] ELSE stored[f]]

SaveItem(stored, doc) ==
    [stored EXCEPT !.cantidad_disponible = doc.cantidad_disponible]

\* ---- call slots --------------------------------------------------------
IdleCall ==
    [op |-> "none", pc |-> "idle", loan |-> NoLoan, fecha |-> NoDate,
     doc |-> NullDoc, item |-> NullItem]

NoReply == [op |-> "none", loan |-> NoLoan, fecha |-> NoDate, result |-> "none"]

\* no notification was due; the notification of op ended before its sink
\* was called; the sink of op is called, for the addresses in to
NoSink == [op |-> "none", on_file |-> {}, to |-> {}, outcome |-> "none"]
Skipped(op) == [op |-> op, to |-> {}, outcome |-> "skipped"]
Called(op, to) == [op |-> op, to |-> to, outcome |-> "called"]

DefaultRetries == 2

\* the step was no read
NoView == [caller |-> [rol |-> "none", id |-> NoUser], filtro |-> NoEstado,
           loans |-> <<>>]

\* no sendEmail call
IdleMail == [pc |-> "idle", to |-> NoEmail, key |-> FALSE, retries |-> 0,
             attempts |-> 0, error |-> "none", result |-> "none",
             batch |-> FALSE]

\* the step is one of the lifecycle: no read, and the sendEmail calls wait
Quiet == view' = NoView /\ mails' = mails

Free(c) == calls[c].pc = "idle"

\* call slots are interchangeable: a new call takes the lowest free one
Slot(c) == Free(c) /\ \A d \in 1..(c - 1) : ~Free(d)

\* the in-memory document of a call, kept to the paths the call still uses:
\* its references and the paths it sets
Held(doc, paths) ==
    [f \in LoanFields |->
        IF f \in paths \cup {"item", "cantidad_prestamo"} THEN doc[f]
        ELSE NullDoc[f]]

Begin(op, l, f) == [IdleCall EXCEPT !.op = op, !.loan = l, !.fecha = f]

\* what the step hands back to the caller of the operation, with the
\* arguments of the call: the error it throws, or "ok" when it returns the loan
Reply(call, res) ==
    [op |-> call.op, loan |-> call.loan, fecha |-> call.fecha, result |-> res]

\* the operation has returned; its setImmediate callback is still queued
Queued(call) == [IdleCall EXCEPT !.op = call.op, !.loan = call.loan,
                                 !.pc = "immediate"]

\* the path has called its sink and waits for it
Waiting(call, pc) == [IdleCall EXCEPT !.op = call.op, !.loan = call.loan,
                                      !.pc = pc]

\* the step of call c throws err to the caller
Throws(c, call, err) ==
    /\ calls' = [calls EXCEPT ![c] = IdleCall]
    /\ reply' = Reply(call, err)
    /\ sink' = NoSink
    /\ Quiet

\* save() finds the document of call c gone: nothing is written and the
\* call, which catches nothing there, ends with the error save() throws; a
\* save() with nothing to send may not look for the document at all
Gone(c, call) == Throws(c, call, "DatastoreError")

\* the step of call c returns the loan to the caller
Returns(c, call, after) ==
    /\ calls' = [calls EXCEPT ![c] = after]
    /\ reply' = Reply(call, "ok")
    /\ sink' = NoSink
    /\ Quiet

\* the step of call c ends at the next await
Awaits(c, call) ==
    /\ calls' = [calls EXCEPT ![c] = call]
    /\ reply' = NoReply
    /\ sink' = NoSink
    /\ Quiet

\* every item with a capacity in Totals and an availability within it
Stocked(Totals) ==
    [ItemIds -> {it \in [cantidad_disponible : 0..SeqStock,
                         cantidad_total_stock : Totals] :
                    it.cantidad_disponible <= it.cantidad_total_stock}]

\* no loans, no calls, one unit of every Item out
Init ==
    /\ items \in Stocked({MaxStock})
    /\ \A i \in ItemIds : items[i].cantidad_disponible = MaxStock - 1
    /\ loans = <<>>
    /\ calls = [c \in CallIds |-> IdleCall]
    /\ reply = NoReply
    /\ sink = NoSink
    /\ view = NoView
    /\ mails = [m \in MailIds |-> IdleMail]
    /\ inicial = [i \in ItemIds |-> items[i].cantidad_disponible]
    /\ restocked = {}

SeqInit ==
    /\ items \in Stocked({SeqStock})
    /\ loans = <<>>
    /\ calls = [c \in CallIds |-> IdleCall]
    /\ reply = NoReply
    /\ sink = NoSink
    /\ view = NoView
    /\ mails = [m \in MailIds |-> IdleMail]
    /\ inicial = [i \in ItemIds |-> items[i].cantidad_disponible]
    /\ restocked = {}

\* ---- createLoan --------------------------------------------------------
\* Loan.create is answered: the loan is stored, at a time that is the time
\* of the last creation or later by one of T, and the three lookups for the
\* message are under way
CreateLoan(c, U, Q, T) ==
    /\ Slot(c)
    /\ Len(loans) < MaxLoans
    /\ \E u \in U, i \in ItemIds, q \in Q, t \in T :
          /\ Clock + t > 0
          /\ loans' = Append(loans, Stamped(NewLoan(u, i, q), Clock + t))
          /\ Awaits(c, [Begin("createLoan", Len(loans) + 1, NoDate)
                          EXCEPT !.pc = "notify",
                                 !.doc = Held(NewLoan(u, i, q), {})])
    /\ UNCHANGED <<items, inicial, restocked>>

\* Item.findById of the lookups is answered, the others are not yet: the
\* call holds the Item it found, or none
CreateLoanFindItem(c) ==
    /\ calls[c].op = "createLoan"
    /\ calls[c].pc = "notify"
    /\ LET call == calls[c]
           i == call.doc.item
       IN Awaits(c, [call EXCEPT !.pc = "lookups",
                                 !.doc.item = IF ItemExists(i) THEN i
                                              ELSE MissingItem])
    /\ UNCHANGED <<items, loans, inicial, restocked>>

\* notifyAdminsNewLoan on the addresses of the administrators: those without
\* an "@" and the demo ones are left out; the sink's own failures end in a
\* failure result
ValidAdmins(addrs) ==
    {e \in addrs : /\ e # NoEmail
                   /\ Contains(e, "@")
                   /\ ~Contains(e, "demo.com")
                   /\ ~Contains(e, "test.com")}

NotifyAdmins(s) ==
    IF s.outcome = "threw" \/ ValidAdmins(s.addrs) = {}
    THEN [op |-> "createLoan", to |-> {}, outcome |-> "failed"]
    ELSE [op |-> "createLoan", to |-> ValidAdmins(s.addrs),
          outcome |-> s.outcome]

\* mutant: what the notification throws reaches the caller of createLoan
Rethrown(s) == IF s.found /\ s.outcome # "threw" THEN "ok" ELSE "NotifyError"

\* the try/catch of createLoan around the notification: nothing it meets
\* changes what createLoan returns
Swallowed(s) == "ok"

\* mutant: an address is taken as it is, if there is one
DeliverableIfSet(email) == email # NoEmail

\* the borrower's address passes the checks made before the sink is called
Deliverable(email) == email # NoEmail /\ Contains(email, "@")

\* what a step of a notification did, with the addresses that were on file
Notified(n, addrs) ==
    [op |-> n.op, on_file |-> addrs, to |-> n.to, outcome |-> n.outcome]

\* the callback calls the sink that belongs to the operation if the
\* borrower was found and the address is deliverable
NotifyBorrower(op, s) ==
    IF s.found /\ \E e \in s.addrs : Deliverable(e)
    THEN Notified(Called(op, {e \in s.addrs : Deliverable(e)}), s.addrs)
    ELSE Notified(Skipped(op), {})

\* how a sink that was called ended
Ended(op, outcome) == [op |-> op, to |-> {}, outcome |-> outcome]

\* the cases of a notification to one borrower
ToBorrower(S) == {s \in S : Cardinality(s.addrs) <= 1}

\* the last of the lookups is answered: notifyAdminsNewLoan is called if
\* they found everything, otherwise the loan is returned
CreateLoanNotify(c, S) ==
    /\ calls[c].op = "createLoan"
    /\ calls[c].pc = "lookups"
    /\ \E s \in S :
          LET call == calls[c] IN
          IF s.found /\ call.doc.item # MissingItem
          THEN /\ calls' = [calls EXCEPT ![c] = Waiting(call, "admins")]
               /\ reply' = NoReply
               /\ sink' = Notified(Called("createLoan", {}), {})
               /\ Quiet
          ELSE /\ calls' = [calls EXCEPT ![c] = IdleCall]
               /\ reply' = Reply(call, Swallowed(s))
               /\ sink' = Notified(Skipped("createLoan"), {})
               /\ Quiet
    /\ UNCHANGED <<items, loans, inicial, restocked>>

\* notifyAdminsNewLoan is over, whatever it met: the loan is returned
CreateLoanReturn(c, S) ==
    /\ calls[c].op = "createLoan"
    /\ calls[c].pc = "admins"
    /\ \E s \in {x \in S : x.found} :
          /\ calls' = [calls EXCEPT ![c] = IdleCall]
          /\ reply' = Reply(calls[c], Swallowed(s))
          /\ sink' = Notified(NotifyAdmins(s), s.addrs)
          /\ Quiet
    /\ UNCHANGED <<items, loans, inicial, restocked>>

\* ---- approveLoan -------------------------------------------------------
ApprovePaths == {"estado", "fecha_prestamo", "fecha_estimada"}

\* mutant: the date is checked before the state of the loan
ApproveFindLoanDateFirst(c, F) ==
    /\ Slot(c)
    /\ \E l \in LoanIds, f \in {NoDate} \cup F :
          LET call == Begin("approveLoan", l, f) IN
          IF ~LoanExists(l) THEN Throws(c, call, "NotFound")
          ELSE IF f = NoDate THEN Throws(c, call, "ValidationError")
          ELSE IF loans[l].estado # "Pendiente" THEN Throws(c, call, "InvalidState")
          ELSE Awaits(c, [call EXCEPT !.pc = "findItem",
                                      !.doc = Held(loans[l], ApprovePaths)])
    /\ UNCHANGED <<items, loans, inicial, restocked>>

ApproveFindLoan(c, F) ==
    /\ Slot(c)
    /\ \E l \in LoanIds, f \in {NoDate} \cup F :
          LET call == Begin("approveLoan", l, f) IN
          IF ~LoanExists(l) THEN Throws(c, call, "NotFound")
          ELSE IF loans[l].estado # "Pendiente" THEN Throws(c, call, "InvalidState")
          ELSE IF f = NoDate THEN Throws(c, call, "ValidationError")
          ELSE Awaits(c, [call EXCEPT !.pc = "findItem",
                                      !.doc = Held(loans[l], ApprovePaths)])
    /\ UNCHANGED <<items, loans, inicial, restocked>>

\* mutant: the request is compared with the capacity, not the availability
ApproveFindItemByTotal(c) ==
    /\ calls[c].op = "approveLoan"
    /\ calls[c].pc = "findItem"
    /\ LET call == calls[c]
           i == call.doc.item
       IN IF ~ItemExists(i) THEN Throws(c, call, "NotFound")
          ELSE IF call.doc.cantidad_prestamo > items[i].cantidad_total_stock
               THEN Throws(c, call, "InsufficientStock")
          ELSE Awaits(c, [call EXCEPT !.pc = "saveLoan", !.item = items[i]])
    /\ UNCHANGED <<items, loans, inicial, restocked>>

ApproveFindItem(c) ==
    /\ calls[c].op = "approveLoan"
    /\ calls[c].pc = "findItem"
    /\ LET call == calls[c]
           i == call.doc.item
       IN IF ~ItemExists(i) THEN Throws(c, call, "NotFound")
          ELSE IF call.doc.cantidad_prestamo > items[i].cantidad_disponible
               THEN Throws(c, call, "InsufficientStock")
          ELSE Awaits(c, [call EXCEPT !.pc = "saveLoan", !.item = items[i]])
    /\ UNCHANGED <<items, loans, inicial, restocked>>

Approved(doc, fecha) ==
    [doc EXCEPT !.estado = "Aprobado", !.fecha_prestamo = Now,
                !.fecha_estimada = fecha]

ApproveSaveLoan(c) ==
    /\ calls[c].op = "approveLoan"
    /\ calls[c].pc = "saveLoan"
    /\ LET call == calls[c]
           l == call.loan
           doc == Approved(call.doc, call.fecha)
       IN IF ~LoanExists(l) THEN Gone(c, call) /\ UNCHANGED loans
          ELSE /\ loans' = [loans EXCEPT ![l] =
                               SaveLoan(loans[l], doc, Dirty(call.doc, doc))]
               /\ Awaits(c, [call EXCEPT !.pc = "settle", !.doc = doc])
    /\ UNCHANGED <<items, inicial, restocked>>

\* mutant: the decrement is forgotten
ReserveNothing(item, q) == item

Reserve(item, q) ==
    [item EXCEPT !.cantidad_disponible = item.cantidad_disponible - q]

Unwound(doc) ==
    [doc EXCEPT !.estado = "Pendiente", !.fecha_prestamo = NoDate,
                !.fecha_estimada = NoDate]

\* mutant: the decrement is made on the Item as it is persisted now
ApproveSettleRereading(c) ==
    /\ calls[c].op = "approveLoan"
    /\ calls[c].pc = "settle"
    /\ LET call == calls[c]
           l == call.loan
           i == call.doc.item
           item == Reserve(IF ItemExists(i) THEN items[i] ELSE call.item,
                           call.doc.cantidad_prestamo)
           undo == Unwound(call.doc)
       IN IF item.cantidad_disponible < 0
          THEN IF ~LoanExists(l)
               THEN Gone(c, call) /\ UNCHANGED <<loans, items>>
               ELSE /\ loans' = [loans EXCEPT ![l] =
                                    SaveLoan(loans[l], undo,
                                             Dirty(call.doc, undo))]
                    /\ Throws(c, call, "InsufficientStock")
                    /\ UNCHANGED items
          ELSE IF ~ItemExists(i)
               THEN Gone(c, call) /\ UNCHANGED <<loans, items>>
               ELSE /\ items' = [items EXCEPT ![i] = SaveItem(items[i], item)]
                    /\ Returns(c, call, Queued(call))
                    /\ UNCHANGED loans
    /\ UNCHANGED <<inicial, restocked>>

ApproveSettle(c) ==
    /\ calls[c].op = "approveLoan"
    /\ calls[c].pc = "settle"
    /\ LET call == calls[c]
           l == call.loan
           i == call.doc.item
           item == Reserve(call.item, call.doc.cantidad_prestamo)
           undo == Unwound(call.doc)
       IN IF item.cantidad_disponible < 0
          THEN IF ~LoanExists(l)
               THEN Gone(c, call) /\ UNCHANGED <<loans, items>>
               ELSE /\ loans' = [loans EXCEPT ![l] =
                                    SaveLoan(loans[l], undo,
                                             Dirty(call.doc, undo))]
                    /\ Throws(c, call, "InsufficientStock")
                    /\ UNCHANGED items
          ELSE IF ~ItemExists(i)
               THEN Gone(c, call) /\ UNCHANGED <<loans, items>>
               ELSE /\ items' = [items EXCEPT ![i] = SaveItem(items[i], item)]
                    /\ Returns(c, call, Queued(call))
                    /\ UNCHANGED loans
    /\ UNCHANGED <<inicial, restocked>>

\* ---- rejectLoan --------------------------------------------------------
RejectFindLoan(c) ==
    /\ Slot(c)
    /\ \E l \in LoanIds :
          LET call == Begin("rejectLoan", l, NoDate) IN
          IF ~LoanExists(l) THEN Throws(c, call, "NotFound")
          ELSE IF loans[l].estado # "Pendiente" THEN Throws(c, call, "InvalidState")
          ELSE Awaits(c, [call EXCEPT !.pc = "saveLoan",
                                      !.doc = Held(loans[l], {"estado"})])
    /\ UNCHANGED <<items, loans, inicial, restocked>>

\* mutant: the state is left as it was read
RejectedInName(doc) == doc

Rejected(doc) == [doc EXCEPT !.estado = "Rechazado"]

RejectSaveLoan(c) ==
    /\ calls[c].op = "rejectLoan"
    /\ calls[c].pc = "saveLoan"
    /\ LET call == calls[c]
           l == call.loan
           doc == Rejected(call.doc)
       IN IF ~LoanExists(l) THEN Gone(c, call) /\ UNCHANGED loans
          ELSE /\ loans' = [loans EXCEPT ![l] =
                               SaveLoan(loans[l], doc, Dirty(call.doc, doc))]
               /\ Returns(c, call, IdleCall)
    /\ UNCHANGED <<items, inicial, restocked>>

\* ---- returnLoan --------------------------------------------------------
ReturnPaths == {"estado", "fecha_retorno"}

ReturnFindLoan(c) ==
    /\ Slot(c)
    /\ \E l \in LoanIds :
          LET call == Begin("returnLoan", l, NoDate) IN
          IF ~LoanExists(l) THEN Throws(c, call, "NotFound")
          ELSE IF loans[l].estado \notin {"Aprobado", "Aplazado"}
               THEN Throws(c, call, "InvalidState")
          ELSE Awaits(c, [call EXCEPT !.pc = "findItem",
                                      !.doc = Held(loans[l], ReturnPaths)])
    /\ UNCHANGED <<items, loans, inicial, restocked>>

\* mutant: the date of return is set, the state is not
ReturnedInState(doc) == [doc EXCEPT !.fecha_retorno = Now]

Returned(doc) == [doc EXCEPT !.estado = "Devuelto", !.fecha_retorno = Now]

\* mutant: the loan is written as returned before the Item is looked up
ReturnFindItemAfterSave(c) ==
    /\ calls[c].op = "returnLoan"
    /\ calls[c].pc = "findItem"
    /\ LET call == calls[c]
           l == call.loan
           i == call.doc.item
           doc == Returned(call.doc)
       IN IF ~ItemExists(i)
          THEN /\ loans' = IF LoanExists(l)
                           THEN [loans EXCEPT ![l] =
                                   SaveLoan(loans[l], doc,
                                            Dirty(call.doc, doc))]
                           ELSE loans
               /\ Throws(c, call, "NotFound")
          ELSE /\ loans' = loans
               /\ Awaits(c, [call EXCEPT !.pc = "saveLoan", !.item = items[i]])
    /\ UNCHANGED <<items, inicial, restocked>>

ReturnFindItem(c) ==
    /\ calls[c].op = "returnLoan"
    /\ calls[c].pc = "findItem"
    /\ LET call == calls[c]
           i == call.doc.item
       IN IF ~ItemExists(i) THEN Throws(c, call, "NotFound")
          ELSE Awaits(c, [call EXCEPT !.pc = "saveLoan", !.item = items[i]])
    /\ UNCHANGED <<items, loans, inicial, restocked>>

ReturnSaveLoan(c) ==
    /\ calls[c].op = "returnLoan"
    /\ calls[c].pc = "saveLoan"
    /\ LET call == calls[c]
           l == call.loan
           doc == Returned(call.doc)
       IN IF ~LoanExists(l) THEN Gone(c, call) /\ UNCHANGED loans
          ELSE /\ loans' = [loans EXCEPT ![l] =
                               SaveLoan(loans[l], doc, Dirty(call.doc, doc))]
               /\ Awaits(c, [call EXCEPT !.pc = "saveItem",
                                         !.doc = Held(doc, {})])
    /\ UNCHANGED <<items, inicial, restocked>>

\* mutant: the clamp is forgotten
RestockUnclamped(item, q) ==
    [item EXCEPT !.cantidad_disponible = item.cantidad_disponible + q]

Restock(item, q) ==
    LET sum == item.cantidad_disponible + q
    IN [item EXCEPT !.cantidad_disponible =
           IF sum > item.cantidad_total_stock
           THEN item.cantidad_total_stock ELSE sum]

\* whether save() sends the Item's cantidad_disponible: it does when the
\* value differs from the loaded one, and either does or does not when the
\* path was changed and set back to it
ItemSends(loaded, doc) ==
    IF doc.cantidad_disponible # loaded.cantidad_disponible
    THEN {TRUE} ELSE BOOLEAN

ReturnSaveItem(c) ==
    /\ calls[c].op = "returnLoan"
    /\ calls[c].pc = "saveItem"
    /\ LET call == calls[c]
           i == call.doc.item
           item == Restock(call.item, call.doc.cantidad_prestamo)
       IN IF ~ItemExists(i)
          THEN /\ \E sent \in ItemSends(call.item, item) :
                     IF sent THEN Gone(c, call)
                     ELSE Returns(c, call, Queued(call))
               /\ UNCHANGED <<items, restocked>>
          ELSE /\ \E sent \in ItemSends(call.item, item) :
                     items' = IF sent
                              THEN [items EXCEPT ![i] =
                                      SaveItem(items[i], item)]
                              ELSE items
               /\ restocked' =
                     IF items'[i].cantidad_disponible
                           > items[i].cantidad_disponible
                     THEN restocked \cup {call.loan} ELSE restocked
               /\ Returns(c, call, Queued(call))
    /\ UNCHANGED <<loans, inicial>>

\* ---- delayLoan ---------------------------------------------------------
DelayPaths == {"estado", "fecha_estimada"}

\* mutant: the state is set, the new date is not
DelayedInDate(doc, fecha) == [doc EXCEPT !.estado = "Aplazado"]

Delayed(doc, fecha) ==
    [doc EXCEPT !.estado = "Aplazado", !.fecha_estimada = fecha]

DelayFindLoan(c, F) ==
    /\ Slot(c)
    /\ \E l \in LoanIds, f \in {NoDate} \cup F :
          LET call == Begin("delayLoan", l, f) IN
          IF ~LoanExists(l) THEN Throws(c, call, "NotFound")
          ELSE IF loans[l].estado \notin {"Aprobado", "Aplazado"}
               THEN Throws(c, call, "InvalidState")
          ELSE IF f = NoDate THEN Throws(c, call, "ValidationError")
          ELSE Awaits(c, [call EXCEPT !.pc = "saveLoan",
                                      !.doc = Held(loans[l], DelayPaths)])
    /\ UNCHANGED <<items, loans, inicial, restocked>>

DelaySaveLoan(c) ==
    /\ calls[c].op = "delayLoan"
    /\ calls[c].pc = "saveLoan"
    /\ LET call == calls[c]
           l == call.loan
           doc == Delayed(call.doc, call.fecha)
       IN IF ~LoanExists(l)
          THEN /\ \/ Gone(c, call)
                  \/ Dirty(call.doc, doc) = {} /\ Returns(c, call, Queued(call))
               /\ UNCHANGED loans
          ELSE /\ loans' = [loans EXCEPT ![l] =
                               SaveLoan(loans[l], doc, Dirty(call.doc, doc))]
               /\ Returns(c, call, Queued(call))
    /\ UNCHANGED <<items, inicial, restocked>>

\* ---- deleteLoan --------------------------------------------------------
\* deleteLoan, one await long, is answered: it throws or returns at once
\* and holds no slot
Answers(call, res) ==
    /\ calls' = calls
    /\ reply' = Reply(call, res)
    /\ sink' = NoSink
    /\ Quiet

\* mutant: the units of a loan that is out are given back to the item
DeleteLoanRestoring ==
    /\ \E l \in LoanIds :
          LET call == Begin("deleteLoan", l, NoDate) IN
          IF ~LoanExists(l)
          THEN Answers(call, "NotFound") /\ UNCHANGED <<loans, items>>
          ELSE /\ loans' = [loans EXCEPT ![l] = Deleted(loans[l])]
               /\ items' =
                     IF /\ loans[l].estado \in {"Aprobado", "Aplazado"}
                        /\ ItemExists(loans[l].item)
                     THEN [items EXCEPT ![loans[l].item] =
                             Restock(@, loans[l].cantidad_prestamo)]
                     ELSE items
               /\ Answers(call, "ok")
    /\ UNCHANGED <<inicial, restocked>>

DeleteLoan ==
    /\ \E l \in LoanIds :
          LET call == Begin("deleteLoan", l, NoDate) IN
          IF ~LoanExists(l)
          THEN Answers(call, "NotFound") /\ UNCHANGED loans
          ELSE /\ loans' = [loans EXCEPT ![l] = Deleted(loans[l])]
               /\ Answers(call, "ok")
    /\ UNCHANGED <<items, inicial, restocked>>

\* ---- listLoans, getLoanById --------------------------------------------
\* a query holds the paths it narrows by: NoUser, NoEstado for a path left out
Query(caller, filtro) ==
    [usuario |-> IF caller.rol # "Admin" THEN caller.id ELSE NoUser,
     estado |-> IF filtro # NoEstado THEN filtro ELSE NoEstado]

Matches(query, l) ==
    /\ LoanExists(l)
    /\ query.usuario # NoUser => loans[l].usuario = query.usuario
    /\ query.estado # NoEstado => loans[l].estado = query.estado

\* the Loan schema stamps every document with the time of its creation
CreatedAt(l) == loans[l].createdAt

\* sort({createdAt: -1}): the last created first, loans created at the same
\* time in the order the datastore gives them
SortedLastFirst(found) ==
    {seq \in [1..Cardinality(found) -> found] :
        /\ \A j, k \in DOMAIN seq : j < k => seq[j] # seq[k]
        /\ \A j, k \in DOMAIN seq :
              j < k => CreatedAt(seq[j]) >= CreatedAt(seq[k])}

\* Loan.find(query).sort({createdAt: -1}): the ids of the loans that match
Find(query) == SortedLastFirst({l \in LoanIds : Matches(query, l)})

Seen(caller, filtro, found) ==
    [caller |-> caller, filtro |-> filtro, loans |-> found]

ListLoans(E) ==
    /\ \E caller \in Callers, filtro \in {NoEstado} \cup E :
          \E found \in Find(Query(caller, filtro)) :
             /\ reply' = Reply(Begin("listLoans", NoLoan, NoDate), "ok")
             /\ view' = Seen(caller, filtro, found)
    /\ sink' = NoSink
    /\ UNCHANGED <<items, loans, calls, mails, inicial, restocked>>

\* the populated borrower of the loan is the caller; with the borrower's
\* document gone there is none to compare
CanView(caller, doc) == caller.rol = "Admin" \/ doc.usuario = caller.id

GetLoanById ==
    /\ \E caller \in Callers, l \in LoanIds, borrower \in BOOLEAN :
          LET call == Begin("getLoanById", l, NoDate) IN
          IF ~LoanExists(l)
          THEN /\ reply' = Reply(call, "NotFound")
               /\ view' = Seen(caller, NoEstado, <<>>)
          ELSE IF caller.rol # "Admin" /\ ~borrower
          THEN /\ reply' = Reply(call, "TypeError")
               /\ view' = Seen(caller, NoEstado, <<>>)
          ELSE IF ~CanView(caller, loans[l])
          THEN /\ reply' = Reply(call, "Forbidden")
               /\ view' = Seen(caller, NoEstado, <<>>)
          ELSE /\ reply' = Reply(call, "ok")
               /\ view' = Seen(caller, NoEstado, <<l>>)
    /\ sink' = NoSink
    /\ UNCHANGED <<items, loans, calls, mails, inicial, restocked>>

\* ---- setImmediate callbacks -------------------------------------------
\* the callbacks of approveLoan and returnLoan read the loan again and end
\* if it is gone; the callback of delayLoan goes by the loan the call read
Looked(call) == call.op = "delayLoan" \/ LoanExists(call.loan)

\* the callback runs up to the call of its sink, or ends without one
RunImmediate(c, S) ==
    /\ calls[c].pc = "immediate"
    /\ \E s \in ToBorrower(S) :
          LET call == calls[c]
              n == IF Looked(call) THEN NotifyBorrower(call.op, s)
                   ELSE Notified(Skipped(call.op), {})
          IN /\ calls' = [calls EXCEPT ![c] =
                             IF n.outcome = "called"
                             THEN Waiting(call, "mailing") ELSE IdleCall]
             /\ reply' = NoReply
             /\ sink' = n
             /\ Quiet
    /\ UNCHANGED <<items, loans, inicial, restocked>>

\* the sink is over: the callback logs how it ended
EndImmediate(c, S) ==
    /\ calls[c].pc = "mailing"
    /\ \E s \in ToBorrower(S) :
          /\ calls' = [calls EXCEPT ![c] = IdleCall]
          /\ reply' = NoReply
          /\ sink' = Notified(Ended(calls[c].op, s.outcome), {})
          /\ Quiet
    /\ UNCHANGED <<items, loans, inicial, restocked>>

\* ---- sendEmail ---------------------------------------------------------
\* how a call of the mail provider ends: the message is taken, an error comes
\* back in the response, or the call throws (rate limit, timeout, other)
ProviderOutcomes == {"delivered", "refused", "429", "ETIMEDOUT", "other"}

\* RESEND_API_KEY is the process's: every slot holds whether it is set
Idle(key) == [IdleMail EXCEPT !.key = key]

BeginMail(to, key) ==
    [IdleMail EXCEPT !.pc = "try", !.to = to, !.key = key,
                     !.retries = DefaultRetries]

\* the sendEmail slots that hold no call
FreeMails(ms) == {m \in MailIds : ms[m].pc = "idle"}

\* one sendEmail call for each address in to, each in the lowest free slot
RECURSIVE Started(_, _, _)
Started(ms, to, batch) ==
    IF to = {} THEN ms
    ELSE LET e == CHOOSE x \in to : TRUE
             m == CHOOSE x \in FreeMails(ms) :
                     \A y \in FreeMails(ms) : x <= y
         IN Started([ms EXCEPT ![m] = [BeginMail(e, ms[m].key)
                                         EXCEPT !.batch = batch]],
                    to \ {e}, batch)

BorrowerOps == {"approveLoan", "returnLoan", "delayLoan"}

\* a callback reaches its notification: sendAprobacion, sendDevolucion or
\* sendAplazado is called as the callback calls it, and calls sendEmail with
\* the address unless the message could not be built
SinkCall(S) ==
    /\ \E op \in BorrowerOps, s \in ToBorrower(S) :
          LET n == NotifyBorrower(op, s) IN
          /\ sink' = n
          /\ IF n.outcome = "called" /\ s.outcome # "threw"
             THEN /\ Cardinality(FreeMails(mails)) >= Cardinality(n.to)
                  /\ mails' = Started(mails, n.to, FALSE)
             ELSE mails' = mails
    /\ view' = NoView
    /\ UNCHANGED <<items, loans, calls, reply, inicial, restocked>>

\* notifyAdminsNewLoan is called, as createLoan calls it, and asks for the
\* administrators
NotifyAdminsCall(c) ==
    /\ Slot(c)
    /\ calls' = [calls EXCEPT ![c] =
                   Waiting(Begin("notifyAdminsNewLoan", NoLoan, NoDate),
                           "admins")]
    /\ sink' = Notified(Called("createLoan", {}), {})
    /\ view' = NoView
    /\ UNCHANGED <<items, loans, reply, mails, inicial, restocked>>

\* the administrators are there: sendEmail is called for each that passes the
\* filter; with none, or the query failing, a failure result is returned
NotifyAdminsFind(c, S) ==
    /\ calls[c].op = "notifyAdminsNewLoan"
    /\ calls[c].pc = "admins"
    /\ \E s \in {x \in S : x.found} :
          LET n == NotifyAdmins(s) IN
          IF n.to = {}
          THEN /\ calls' = [calls EXCEPT ![c] = IdleCall]
               /\ sink' = Notified(n, s.addrs)
               /\ mails' = mails
          ELSE /\ Cardinality(FreeMails(mails)) >= Cardinality(n.to)
               /\ calls' = [calls EXCEPT ![c] = Waiting(calls[c], "sending")]
               /\ sink' = Notified(Called("createLoan", n.to), s.addrs)
               /\ mails' = Started(mails, n.to, TRUE)
    /\ view' = NoView
    /\ UNCHANGED <<items, loans, reply, inicial, restocked>>

\* every sendEmail call of notifyAdminsNewLoan has settled: it returns a
\* success result if one of them succeeded
NotifyAdminsReturn(c) ==
    /\ calls[c].op = "notifyAdminsNewLoan"
    /\ calls[c].pc = "sending"
    /\ \A m \in MailIds : mails[m].batch => mails[m].pc = "done"
    /\ calls' = [calls EXCEPT ![c] = IdleCall]
    /\ sink' = Notified(Ended("createLoan",
                              IF \E m \in MailIds : /\ mails[m].batch
                                                    /\ mails[m].result = "success"
                              THEN "sent" ELSE "failed"), {})
    /\ mails' = [m \in MailIds |->
                   IF mails[m].batch THEN Idle(mails[m].key) ELSE mails[m]]
    /\ view' = NoView
    /\ UNCHANGED <<items, loans, reply, inicial, restocked>>

\* a call of sendEmail by one of the other senders, with the address as it is
SendEmail(m) ==
    /\ mails[m].pc = "idle"
    /\ \A d \in FreeMails(mails) : m <= d
    /\ \E to \in Emails :
          mails' = [mails EXCEPT ![m] = BeginMail(to, mails[m].key)]
    /\ sink' = NoSink
    /\ view' = NoView
    /\ UNCHANGED <<items, loans, calls, reply, inicial, restocked>>

\* mutant: any failure is tried again while retries are left
RetriableOnAny(error, retries) == retries > 0

Retriable(error, retries) == retries > 0 /\ error \in {"429", "ETIMEDOUT"}

\* the catch of sendEmail: wait and call again, or give a failure result
Caught(mail, error) ==
    IF Retriable(error, mail.retries)
    THEN [mail EXCEPT !.pc = "backoff", !.error = error]
    ELSE [mail EXCEPT !.pc = "done", !.error = error, !.result = "failure"]

\* the try of sendEmail: the checks, then the call of the provider
SendEmailTry(m) ==
    /\ mails[m].pc = "try"
    /\ LET mail == mails[m] IN
       IF mail.to = NoEmail \/ ~Contains(mail.to, "@")
       THEN mails' = [mails EXCEPT ![m] = Caught(mail, "invalid")]
       ELSE IF ~mail.key
       THEN mails' = [mails EXCEPT ![m] = Caught(mail, "nokey")]
       ELSE \E r \in ProviderOutcomes :
               LET tried == [mail EXCEPT !.attempts = @ + 1] IN
               IF r = "delivered"
               THEN mails' = [mails EXCEPT ![m] =
                                [tried EXCEPT !.pc = "done", !.error = "none",
                                              !.result = "success"]]
               ELSE mails' = [mails EXCEPT ![m] = Caught(tried, r)]
    /\ sink' = NoSink
    /\ view' = NoView
    /\ UNCHANGED <<items, loans, calls, reply, inicial, restocked>>

\* the backoff is over: sendEmail calls itself with one retry less
SendEmailRetry(m) ==
    /\ mails[m].pc = "backoff"
    /\ mails' = [mails EXCEPT ![m].pc = "try", ![m].retries = @ - 1]
    /\ sink' = NoSink
    /\ view' = NoView
    /\ UNCHANGED <<items, loans, calls, reply, inicial, restocked>>

\* the result object is with the caller
SendEmailReturn(m) ==
    /\ mails[m].pc = "done"
    /\ ~mails[m].batch
    /\ mails' = [mails EXCEPT ![m] = Idle(mails[m].key)]
    /\ sink' = NoSink
    /\ view' = NoView
    /\ UNCHANGED <<items, loans, calls, reply, inicial, restocked>>

\* ---- datastore failures ------------------------------------------------
SavePoints == {"saveLoan", "settle", "saveItem"}

\* the save a call is waiting for is rejected by the datastore: it writes
\* nothing, and the call, which catches nothing there, ends with that error
SaveFails(c) ==
    /\ calls[c].pc \in SavePoints
    /\ Throws(c, calls[c], "DatastoreError")
    /\ UNCHANGED <<items, loans, inicial, restocked>>

\* ---- the Item collection ----------------------------------------------
\* an Item is deleted by its own service
ItemRemoved(i) ==
    /\ ItemExists(i)
    /\ items' = [j \in DOMAIN items \ {i} |-> items[j]]
    /\ reply' = NoReply
    /\ sink' = NoSink
    /\ Quiet
    /\ UNCHANGED <<loans, calls, inicial, restocked>>

\* ---- specifications ----------------------------------------------------
\* no operation is in flight (callbacks of returned operations may be queued
\* or waiting for their sink)
Quiescent == \A c \in CallIds : calls[c].pc \in {"idle", "immediate", "mailing"}

\* calls of createLoan, approveLoan, rejectLoan, returnLoan and delayLoan, and
\* the callbacks they leave, interleave at every await
Next ==
    \/ \E c \in CallIds : CreateLoan(c, RaceUsers, Quantities, RaceTicks)
    \/ \E c \in CallIds : CreateLoanFindItem(c)
    \/ \E c \in CallIds : CreateLoanNotify(c, RaceSinks)
    \/ \E c \in CallIds : CreateLoanReturn(c, RaceSinks)
    \/ \E c \in CallIds : ApproveFindLoan(c, RaceDates)
    \/ \E c \in CallIds : ApproveFindItem(c)
    \/ \E c \in CallIds : ApproveSaveLoan(c)
    \/ \E c \in CallIds : ApproveSettle(c)
    \/ \E c \in CallIds : RejectFindLoan(c)
    \/ \E c \in CallIds : RejectSaveLoan(c)
    \/ \E c \in CallIds : ReturnFindLoan(c)
    \/ \E c \in CallIds : ReturnFindItem(c)
    \/ \E c \in CallIds : ReturnSaveLoan(c)
    \/ \E c \in CallIds : ReturnSaveItem(c)
    \/ \E c \in CallIds : DelayFindLoan(c, RaceDates)
    \/ \E c \in CallIds : DelaySaveLoan(c)
    \/ \E c \in CallIds : RunImmediate(c, RaceSinks)
    \/ \E c \in CallIds : EndImmediate(c, RaceSinks)

Spec == Init /\ [][Next]_vars

\* the same operations called one at a time, each begun when the one before
\* has returned or thrown; the callbacks run when they run
SeqNext ==
    \/ Quiescent /\ \E c \in CallIds : CreateLoan(c, RaceUsers, Quantities, RaceTicks)
    \/ \E c \in CallIds : CreateLoanFindItem(c)
    \/ \E c \in CallIds : CreateLoanNotify(c, RaceSinks)
    \/ \E c \in CallIds : CreateLoanReturn(c, RaceSinks)
    \/ Quiescent /\ \E c \in CallIds : ApproveFindLoan(c, Dates)
    \/ \E c \in CallIds : ApproveFindItem(c)
    \/ \E c \in CallIds : ApproveSaveLoan(c)
    \/ \E c \in CallIds : ApproveSettle(c)
    \/ Quiescent /\ \E c \in CallIds : RejectFindLoan(c)
    \/ \E c \in CallIds : RejectSaveLoan(c)
    \/ Quiescent /\ \E c \in CallIds : ReturnFindLoan(c)
    \/ \E c \in CallIds : ReturnFindItem(c)
    \/ \E c \in CallIds : ReturnSaveLoan(c)
    \/ \E c \in CallIds : ReturnSaveItem(c)
    \/ Quiescent /\ \E c \in CallIds : DelayFindLoan(c, Dates)
    \/ \E c \in CallIds : DelaySaveLoan(c)
    \/ \E c \in CallIds : RunImmediate(c, RaceSinks)
    \/ \E c \in CallIds : EndImmediate(c, RaceSinks)

SeqSpec == SeqInit /\ [][SeqNext]_vars

\* the same, with every course the notifications take and saves that may
\* fail
SvcNext ==
    \/ Quiescent /\ \E c \in CallIds : CreateLoan(c, RaceUsers, Quantities, RaceTicks)
    \/ \E c \in CallIds : CreateLoanFindItem(c)
    \/ \E c \in CallIds : CreateLoanNotify(c, SvcSinks)
    \/ \E c \in CallIds : CreateLoanReturn(c, SvcSinks)
    \/ Quiescent /\ \E c \in CallIds : ApproveFindLoan(c, RaceDates)
    \/ \E c \in CallIds : ApproveFindItem(c)
    \/ \E c \in CallIds : ApproveSaveLoan(c)
    \/ \E c \in CallIds : ApproveSettle(c)
    \/ Quiescent /\ \E c \in CallIds : RejectFindLoan(c)
    \/ \E c \in CallIds : RejectSaveLoan(c)
    \/ Quiescent /\ \E c \in CallIds : ReturnFindLoan(c)
    \/ \E c \in CallIds : ReturnFindItem(c)
    \/ \E c \in CallIds : ReturnSaveLoan(c)
    \/ \E c \in CallIds : ReturnSaveItem(c)
    \/ Quiescent /\ \E c \in CallIds : DelayFindLoan(c, RaceDates)
    \/ \E c \in CallIds : DelaySaveLoan(c)
    \/ \E c \in CallIds : RunImmediate(c, SvcSinks)
    \/ \E c \in CallIds : EndImmediate(c, SvcSinks)
    \/ \E c \in CallIds : SaveFails(c)

SvcSpec == Init /\ [][SvcNext]_vars

\* the five operations called one at a time, and deleteLoan at any time
DelNext ==
    \/ Quiescent /\ \E c \in CallIds : CreateLoan(c, RaceUsers, Quantities, RaceTicks)
    \/ \E c \in CallIds : CreateLoanFindItem(c)
    \/ \E c \in CallIds : CreateLoanNotify(c, RaceSinks)
    \/ \E c \in CallIds : CreateLoanReturn(c, RaceSinks)
    \/ Quiescent /\ \E c \in CallIds : ApproveFindLoan(c, RaceDates)
    \/ \E c \in CallIds : ApproveFindItem(c)
    \/ \E c \in CallIds : ApproveSaveLoan(c)
    \/ \E c \in CallIds : ApproveSettle(c)
    \/ Quiescent /\ \E c \in CallIds : RejectFindLoan(c)
    \/ \E c \in CallIds : RejectSaveLoan(c)
    \/ Quiescent /\ \E c \in CallIds : ReturnFindLoan(c)
    \/ \E c \in CallIds : ReturnFindItem(c)
    \/ \E c \in CallIds : ReturnSaveLoan(c)
    \/ \E c \in CallIds : ReturnSaveItem(c)
    \/ Quiescent /\ \E c \in CallIds : DelayFindLoan(c, RaceDates)
    \/ \E c \in CallIds : DelaySaveLoan(c)
    \/ \E c \in CallIds : RunImmediate(c, RaceSinks)
    \/ \E c \in CallIds : EndImmediate(c, RaceSinks)
    \/ DeleteLoan

DelSpec == Init /\ [][DelNext]_vars

\* every operation of the service, called one at a time, with every user and
\* every caller
ReadNext ==
    \/ Quiescent /\ \E c \in CallIds : CreateLoan(c, UserIds, RaceQuantities, Ticks)
    \/ \E c \in CallIds : CreateLoanFindItem(c)
    \/ \E c \in CallIds : CreateLoanNotify(c, RaceSinks)
    \/ \E c \in CallIds : CreateLoanReturn(c, RaceSinks)
    \/ Quiescent /\ \E c \in CallIds : ApproveFindLoan(c, RaceDates)
    \/ \E c \in CallIds : ApproveFindItem(c)
    \/ \E c \in CallIds : ApproveSaveLoan(c)
    \/ \E c \in CallIds : ApproveSettle(c)
    \/ Quiescent /\ \E c \in CallIds : RejectFindLoan(c)
    \/ \E c \in CallIds : RejectSaveLoan(c)
    \/ Quiescent /\ \E c \in CallIds : ReturnFindLoan(c)
    \/ \E c \in CallIds : ReturnFindItem(c)
    \/ \E c \in CallIds : ReturnSaveLoan(c)
    \/ \E c \in CallIds : ReturnSaveItem(c)
    \/ Quiescent /\ \E c \in CallIds : DelayFindLoan(c, RaceDates)
    \/ \E c \in CallIds : DelaySaveLoan(c)
    \/ \E c \in CallIds : RunImmediate(c, RaceSinks)
    \/ \E c \in CallIds : EndImmediate(c, RaceSinks)
    \/ Quiescent /\ DeleteLoan
    \/ Quiescent /\ ListLoans(RaceEstados)
    \/ Quiescent /\ GetLoanById

ReadSpec == Init /\ [][ReadNext]_vars

\* every operation of the service, called one at a time, where Items may be
\* deleted at any time
ValNext ==
    \/ Quiescent /\ \E c \in CallIds : CreateLoan(c, RaceUsers, Quantities, RaceTicks)
    \/ \E c \in CallIds : CreateLoanFindItem(c)
    \/ \E c \in CallIds : CreateLoanNotify(c, RaceSinks)
    \/ \E c \in CallIds : CreateLoanReturn(c, RaceSinks)
    \/ Quiescent /\ \E c \in CallIds : ApproveFindLoan(c, RaceDates)
    \/ \E c \in CallIds : ApproveFindItem(c)
    \/ \E c \in CallIds : ApproveSaveLoan(c)
    \/ \E c \in CallIds : ApproveSettle(c)
    \/ Quiescent /\ \E c \in CallIds : RejectFindLoan(c)
    \/ \E c \in CallIds : RejectSaveLoan(c)
    \/ Quiescent /\ \E c \in CallIds : ReturnFindLoan(c)
    \/ \E c \in CallIds : ReturnFindItem(c)
    \/ \E c \in CallIds : ReturnSaveLoan(c)
    \/ \E c \in CallIds : ReturnSaveItem(c)
    \/ Quiescent /\ \E c \in CallIds : DelayFindLoan(c, RaceDates)
    \/ \E c \in CallIds : DelaySaveLoan(c)
    \/ \E c \in CallIds : RunImmediate(c, RaceSinks)
    \/ \E c \in CallIds : EndImmediate(c, RaceSinks)
    \/ Quiescent /\ DeleteLoan
    \/ Quiescent /\ ListLoans(RaceEstados)
    \/ Quiescent /\ GetLoanById
    \/ \E i \in ItemIds : ItemRemoved(i)

ValSpec == Init /\ [][ValNext]_vars

\* the notifications followed through sendEmail
MailNext ==
    \/ SinkCall(MailSinks)
    \/ NotifyAdminsCall(1)
    \/ NotifyAdminsFind(1, MailSinks)
    \/ NotifyAdminsReturn(1)
    \/ \E m \in MailIds : SendEmail(m)
    \/ \E m \in MailIds : SendEmailTry(m)
    \/ \E m \in MailIds : SendEmailRetry(m)
    \/ \E m \in MailIds : SendEmailReturn(m)

\* no loans, no calls, the key set or not
MailInit ==
    /\ items \in Stocked({MaxStock})
    /\ loans = <<>>
    /\ calls = [c \in CallIds |-> IdleCall]
    /\ reply = NoReply
    /\ sink = NoSink
    /\ view = NoView
    /\ \E key \in BOOLEAN : mails = [m \in MailIds |-> Idle(key)]
    /\ inicial = [i \in ItemIds |-> items[i].cantidad_disponible]
    /\ restocked = {}

MailSpec == MailInit /\ [][MailNext]_vars

\* the same, where a sendEmail call that can take a step does: the call of
\* the provider settles, the timer of the backoff fires
MailLive ==
    /\ MailSpec
    /\ \A m \in MailIds :
          /\ WF_vars(SendEmailTry(m))
          /\ WF_vars(SendEmailRetry(m))

\* two approveLoan calls on two pending loans of one item, as left by two
\* createLoan calls: each loan fits the stock, the two together do not
RaceInit ==
    /\ items \in Stocked({MaxStock})
    /\ \E u \in RaceUsers, i \in ItemIds :
          loans \in {<<Stamped(NewLoan(u, i, q1), 1),
                        Stamped(NewLoan(u, i, q2), 2)>> :
                        q1 \in 1..MaxQty, q2 \in 1..MaxQty}
    /\ LET d == items[loans[1].item].cantidad_disponible
       IN /\ loans[1].cantidad_prestamo <= d
          /\ loans[2].cantidad_prestamo <= d
          /\ loans[1].cantidad_prestamo + loans[2].cantidad_prestamo > d
    /\ calls = [c \in CallIds |-> IdleCall]
    /\ reply = NoReply
    /\ sink = NoSink
    /\ view = NoView
    /\ mails = [m \in MailIds |-> IdleMail]
    /\ inicial = [i \in ItemIds |-> items[i].cantidad_disponible]
    /\ restocked = {}

RaceNext ==
    \/ \E c \in CallIds : ApproveFindLoan(c, RaceDates)
    \/ \E c \in CallIds : ApproveFindItem(c)
    \/ \E c \in CallIds : ApproveSaveLoan(c)
    \/ \E c \in CallIds : ApproveSettle(c)
    \/ \E c \in CallIds : RunImmediate(c, RaceSinks)
    \/ \E c \in CallIds : EndImmediate(c, RaceSinks)

RaceSpec == RaceInit /\ [][RaceNext]_vars

\* ---- properties --------------------------------------------------------
Min(a, b) == IF a < b THEN a ELSE b

Lends(l, i) ==
    /\ loans[l].item = i
    /\ loans[l].estado \in {"Aprobado", "Aplazado"}

RECURSIVE LentUpTo(_, _)
LentUpTo(n, i) ==
    IF n = 0 THEN 0
    ELSE LentUpTo(n - 1, i)
         + (IF Lends(n, i) THEN loans[n].cantidad_prestamo ELSE 0)

\* the units of item i out on loans in Aprobado or Aplazado
Lent(i) == LentUpTo(Len(loans), i)

\* C1: every persisted Item has 0 <= cantidad_disponible <= cantidad_total_stock,
\* in every state reached by any interleaving of the lifecycle calls.
C1_StockWithinBounds ==
    \A i \in DOMAIN items :
       /\ 0 <= items[i].cantidad_disponible
       /\ items[i].cantidad_disponible <= items[i].cantidad_total_stock

\* approvals and returns have both written the item, and it sits at capacity
\* after a return whose write raised nothing
C1_Witness ==
    \E l \in 1..Len(loans), k \in 1..Len(loans) :
       /\ reply.op = "returnLoan" /\ reply.result = "ok" /\ reply.loan = l
       /\ loans[k].estado = "Aprobado"
       /\ loans[k].item = loans[l].item
       /\ items[loans[l].item].cantidad_disponible < inicial[loans[l].item]

\* C2: of two concurrent approvals of different pending loans of one item that
\* fit the stock singly but not together, exactly one succeeds: once both
\* calls are over, one loan is Aprobado with the stock lowered by its
\* quantity and the other is Pendiente again with its dates unset.
C2_OneApprovalWins ==
    (Quiescent /\ \E l \in 1..Len(loans) : loans[l].estado = "Aprobado")
    => \E w \in 1..Len(loans) :
          /\ loans[w].estado = "Aprobado"
          /\ items[loans[w].item].cantidad_disponible
                = inicial[loans[w].item] - loans[w].cantidad_prestamo
          /\ \A l \in 1..Len(loans) \ {w} :
                /\ loans[l].estado = "Pendiente"
                /\ loans[l].fecha_prestamo = NoDate
                /\ loans[l].fecha_estimada = NoDate

\* C3: in every quiescent state, for every Item, cantidad_disponible plus the
\* quantities of its loans in Aprobado or Aplazado equals the availability the
\* item started with.
C3_StockConserved ==
    Quiescent =>
       \A i \in DOMAIN items :
          items[i].cantidad_disponible + Lent(i) = inicial[i]

\* C4: the item save of a returnLoan call raises the Item's
\* cantidad_disponible on behalf of its loan only if none did so before.
C4_RestockedOnce ==
    [][(/\ reply'.op = "returnLoan" /\ reply'.result = "ok"
        /\ \E i \in DOMAIN items :
              items'[i].cantidad_disponible > items[i].cantidad_disponible)
       => reply'.loan \notin restocked]_vars

\* the step is the first of a call of op on loan l that fails on what it read
FailsAtRead(op, l) ==
    /\ calls' = calls
    /\ reply'.op = op
    /\ reply'.loan = l

\* the step is the first of a call of op on loan l that goes on
GoesOn(op, l) ==
    \E c \in CallIds :
       /\ Free(c)
       /\ calls'[c].op = op
       /\ calls'[c].loan = l
       /\ ~(op = "createLoan")

\* the step is one of call c
Moves(c) == calls'[c] # calls[c]

\* C5: approveLoan on a loan read in a state other than Pendiente fails with
\* InvalidState whatever the date, and writes neither the Item nor the Loan.
C5_ApproveNeedsPendiente ==
    [][\A l \in 1..Len(loans) :
          loans[l].estado # "Pendiente"
          => /\ ~GoesOn("approveLoan", l)
             /\ FailsAtRead("approveLoan", l)
                => /\ reply'.result = "InvalidState"
                   /\ items' = items
                   /\ loans' = loans]_vars

\* approveLoan has failed with InvalidState on a returned loan, with a date
C5_Witness ==
    /\ reply.op = "approveLoan"
    /\ reply.result = "InvalidState"
    /\ reply.fecha # NoDate
    /\ LoanExists(reply.loan)
    /\ loans[reply.loan].estado = "Devuelto"

\* C6: approveLoan with a date on a Pendiente loan whose cantidad_prestamo
\* exceeds the Item's cantidad_disponible fails with InsufficientStock and
\* leaves Item and Loan as they were: still Pendiente, dates unset.
C6_InsufficientStock ==
    [][\A c \in CallIds :
          LET l == calls[c].loan
              i == calls[c].doc.item
          IN (/\ Moves(c)
              /\ calls[c].op = "approveLoan"
              /\ calls[c].pc = "findItem"
              /\ ItemExists(i)
              /\ loans[l].cantidad_prestamo > items[i].cantidad_disponible)
             => /\ reply' = [op |-> "approveLoan", loan |-> l,
                             fecha |-> calls[c].fecha,
                             result |-> "InsufficientStock"]
                /\ reply'.fecha # NoDate
                /\ calls'[c] = IdleCall
                /\ items' = items
                /\ loans' = loans
                /\ loans'[l].estado = "Pendiente"
                /\ loans'[l].fecha_prestamo = NoDate
                /\ loans'[l].fecha_estimada = NoDate]_vars

\* approveLoan has failed with InsufficientStock on a loan asking for more
\* than is available
C6_Witness ==
    /\ reply.op = "approveLoan"
    /\ reply.result = "InsufficientStock"
    /\ LoanExists(reply.loan)
    /\ loans[reply.loan].estado = "Pendiente"
    /\ loans[reply.loan].cantidad_prestamo
         > items[loans[reply.loan].item].cantidad_disponible
    /\ items[loans[reply.loan].item].cantidad_disponible > 0

\* C7: returnLoan on a loan read in Aprobado or Aplazado saves it as Devuelto
\* and then saves the Item with min(cantidad_disponible + cantidad_prestamo,
\* cantidad_total_stock), taken from the availability it read (the persisted
\* one, when no other call wrote the Item in between), and returns without
\* error; on a loan read in Pendiente, Rechazado or Devuelto it fails with
\* InvalidState and changes neither Loan nor Item.
C7_Return ==
    [][/\ \A l \in 1..Len(loans) :
             IF loans[l].estado \in {"Aprobado", "Aplazado"}
             THEN ~FailsAtRead("returnLoan", l)
             ELSE /\ ~GoesOn("returnLoan", l)
                  /\ FailsAtRead("returnLoan", l)
                     => /\ reply'.result = "InvalidState"
                        /\ items' = items
                        /\ loans' = loans
       /\ \A c \in CallIds :
             LET l == calls[c].loan
                 i == calls[c].doc.item
                 q == loans[l].cantidad_prestamo
             IN (Moves(c) /\ calls[c].op = "returnLoan")
                => /\ calls[c].pc = "findItem" /\ ItemExists(i) => reply' = NoReply
                   /\ calls[c].pc = "saveLoan"
                      => /\ loans'[l].estado = "Devuelto"
                         /\ reply' = NoReply
                   /\ calls[c].pc = "saveItem"
                      => /\ reply'.op = "returnLoan" /\ reply'.loan = l
                         /\ reply'.result = "ok"
                         /\ loans' = loans
                         /\ items'[i].cantidad_total_stock
                               = items[i].cantidad_total_stock
                         /\ items[i].cantidad_disponible
                               = calls[c].item.cantidad_disponible
                            => items'[i].cantidad_disponible
                                 = Min(items[i].cantidad_disponible + q,
                                       items[i].cantidad_total_stock)]_vars

\* returnLoan has returned on an item that was at capacity: the clamp acted
C7_Witness ==
    /\ reply.op = "returnLoan"
    /\ reply.result = "ok"
    /\ loans[reply.loan].estado = "Devuelto"
    /\ reply.loan \notin restocked
    /\ \A c \in CallIds : Free(c) \/ calls[c].loan = reply.loan
    /\ items[loans[reply.loan].item].cantidad_disponible
         = items[loans[reply.loan].item].cantidad_total_stock

\* C8: delayLoan on a loan in Aprobado or Aplazado fails with ValidationError
\* without a date and changes nothing; with a date it succeeds and leaves the
\* loan Aplazado with fecha_estimada the given date; on a loan in Pendiente,
\* Rechazado or Devuelto it fails with InvalidState; no step of delayLoan
\* changes an Item.
C8_Delay ==
    [][/\ \A l \in 1..Len(loans) :
             IF loans[l].estado \in {"Aprobado", "Aplazado"}
             THEN /\ FailsAtRead("delayLoan", l)
                     => /\ reply'.result = "ValidationError"
                        /\ reply'.fecha = NoDate
                        /\ items' = items
                        /\ loans' = loans
                  /\ \A c \in CallIds :
                        (Free(c) /\ calls'[c].op = "delayLoan" /\ calls'[c].loan = l)
                        => calls'[c].fecha \in Dates
             ELSE /\ ~GoesOn("delayLoan", l)
                  /\ FailsAtRead("delayLoan", l)
                     => /\ reply'.result = "InvalidState"
                        /\ items' = items
                        /\ loans' = loans
       /\ \A c \in CallIds :
             LET l == calls[c].loan
             IN (Moves(c) /\ calls[c].op = "delayLoan" /\ calls[c].pc = "saveLoan")
                => /\ reply' = [op |-> "delayLoan", loan |-> l,
                                fecha |-> calls[c].fecha, result |-> "ok"]
                   /\ loans'[l].estado = "Aplazado"
                   /\ loans'[l].fecha_estimada = calls[c].fecha
                   /\ items' = items
       /\ reply'.op = "delayLoan" => items' = items]_vars

\* delayLoan has set the date of a loan to the last of the dates
C8_Witness ==
    /\ reply.op = "delayLoan"
    /\ reply.result = "ok"
    /\ loans[reply.loan].estado = "Aplazado"
    /\ loans[reply.loan].fecha_estimada = reply.fecha
    /\ reply.fecha = NumDates

\* C9: with one loan only, of a quantity q within the availability d the item
\* started with, and calls run one after another: createLoan leaves the loan
\* Pendiente and the item at d; approveLoan with a date then succeeds, the loan
\* Aprobado and the item at d - q; returnLoan then succeeds, the loan Devuelto
\* and the item at d again.
C9_RoundTrip ==
    (/\ Len(loans) = 1
     /\ loans[1].cantidad_prestamo <= inicial[loans[1].item])
    => LET i == loans[1].item
           d == inicial[i]
           q == loans[1].cantidad_prestamo
           e == loans[1].estado
           now == items[i].cantidad_disponible
       IN /\ (reply.op = "createLoan")
             => reply.result = "ok" /\ e = "Pendiente" /\ now = d
          /\ (reply.op = "approveLoan" /\ reply.loan = 1 /\ reply.fecha # NoDate)
             => \/ reply.result = "ok" /\ e = "Aprobado" /\ now = d - q
                \/ reply.result = "InvalidState" /\ e # "Pendiente"
          /\ (reply.op = "returnLoan" /\ reply.loan = 1)
             => \/ reply.result = "ok" /\ e = "Devuelto" /\ now = d
                \/ reply.result = "InvalidState" /\ e \notin {"Aprobado", "Aplazado"}
          /\ Quiescent
             => /\ e \in {"Pendiente", "Rechazado", "Devuelto"} => now = d
                /\ e \in {"Aprobado", "Aplazado"} => now = d - q

\* the specified case: 3 of 5 available, 2 lent and returned
C9_Witness ==
    /\ Len(loans) = 1
    /\ inicial[loans[1].item] = 3
    /\ items[loans[1].item].cantidad_total_stock = 5
    /\ loans[1].cantidad_prestamo = 2
    /\ loans[1].estado = "Devuelto"
    /\ loans[1].fecha_estimada \in Dates
    /\ items[loans[1].item].cantidad_disponible = 3
    /\ reply.op = "returnLoan"
    /\ reply.result = "ok"

\* C10: once a loan is persisted as Rechazado or Devuelto, no step changes
\* its estado.
C10_TerminalStates ==
    [][\A l \in 1..Len(loans) :
          loans[l].estado \in {"Rechazado", "Devuelto"}
          => loans'[l].estado = loans[l].estado]_vars

\* C11: when approveLoan fails after its Loan write and before its Item write
\* is done, the loan is not left Aprobado with the stock undeducted; when
\* returnLoan fails there, the loan is not left Devuelto with the stock
\* unrestored.
C11_NoDivergence ==
    [][\A c \in CallIds :
          LET l == calls[c].loan
              i == calls[c].doc.item
          IN (Moves(c) /\ reply'.op = calls[c].op /\ reply'.result # "ok")
             => /\ (calls[c].op = "approveLoan" /\ calls[c].pc = "settle")
                   => ~(/\ loans'[l].estado = "Aprobado"
                        /\ items'[i].cantidad_disponible
                              = items[i].cantidad_disponible)
                /\ (calls[c].op = "returnLoan" /\ calls[c].pc = "saveItem")
                   => ~(/\ loans'[l].estado = "Devuelto"
                        /\ items'[i].cantidad_disponible
                              = items[i].cantidad_disponible
                        /\ items[i].cantidad_disponible
                              < items[i].cantidad_total_stock)]_vars

\* C12: when approveLoan comes to its decrement and the Item's persisted
\* cantidad_disponible less the loan's cantidad_prestamo is negative, the loan
\* is persisted again as Pendiente with fecha_prestamo and fecha_estimada
\* unset, the Item is not written and the call fails with InsufficientStock.
C12_Compensation ==
    [][\A c \in CallIds :
          LET l == calls[c].loan
              i == calls[c].doc.item
              q == calls[c].doc.cantidad_prestamo
          IN (/\ Moves(c)
              /\ calls[c].op = "approveLoan"
              /\ calls[c].pc = "settle"
              /\ items[i].cantidad_disponible - q < 0)
             => /\ loans'[l].estado = "Pendiente"
                /\ loans'[l].fecha_prestamo = NoDate
                /\ loans'[l].fecha_estimada = NoDate
                /\ items' = items
                /\ reply'.op = "approveLoan"
                /\ reply'.result = "InsufficientStock"]_vars

\* C13: rejectLoan on a loan read in Pendiente goes on to save it as Rechazado,
\* changing nothing else of it, and returns without error; on a loan read in
\* any other state it fails with InvalidState and leaves the loan as it was;
\* no step of rejectLoan changes an Item.
C13_Reject ==
    [][/\ \A l \in 1..Len(loans) :
             IF loans[l].estado = "Pendiente"
             THEN ~FailsAtRead("rejectLoan", l)
             ELSE /\ ~GoesOn("rejectLoan", l)
                  /\ FailsAtRead("rejectLoan", l)
                     => /\ reply'.result = "InvalidState"
                        /\ loans' = loans
       /\ \A c \in CallIds :
             LET l == calls[c].loan
             IN (Moves(c) /\ calls[c].op = "rejectLoan" /\ reply'.result = "ok")
                => /\ reply'.op = "rejectLoan" /\ reply'.loan = l
                   /\ loans' = [loans EXCEPT ![l].estado = "Rechazado"]
       /\ (reply'.op = "rejectLoan" \/ \E c \in CallIds :
                                          Moves(c) /\ calls'[c].op = "rejectLoan")
          => items' = items]_vars

\* rejectLoan has failed with InvalidState on an approved loan, after it
\* rejected another, with stock out on loan
C13_Witness ==
    /\ reply.op = "rejectLoan"
    /\ reply.result = "InvalidState"
    /\ LoanExists(reply.loan)
    /\ loans[reply.loan].estado = "Aprobado"
    /\ \E k \in 1..Len(loans) : loans[k].estado = "Rechazado"
    /\ items[loans[reply.loan].item].cantidad_disponible
         < inicial[loans[reply.loan].item]

\* C14: deleteLoan on a loan that exists removes it, whatever its estado,
\* and returns without error; on one that does not it fails with NotFound;
\* either way it changes no other loan and no Item, so that the units of a
\* deleted loan in Aprobado or Aplazado stay deducted.
C14_Delete ==
    [][\A l \in LoanIds :
          (reply'.op = "deleteLoan" /\ reply'.loan = l)
          => /\ items' = items
             /\ IF LoanExists(l)
                THEN /\ reply'.result = "ok"
                     /\ loans' = [loans EXCEPT ![l] = Deleted(loans[l])]
                ELSE /\ reply'.result = "NotFound"
                     /\ loans' = loans]_vars

\* an approved loan has been deleted: nothing is out on loan any more and
\* the item is still short of the units
C14_Witness ==
    /\ reply.op = "deleteLoan"
    /\ reply.result = "ok"
    /\ loans[reply.loan].estado = "Removed"
    /\ \A i \in DOMAIN items :
          /\ Lent(i) = 0
          /\ items[i].cantidad_disponible < inicial[i]

\* C15: no step of a notification changes a Loan or an Item: createLoan
\* returns the loan to its caller without error whether the lookups fail or
\* notifyAdminsNewLoan sends, fails or throws, and the callbacks of
\* approveLoan, returnLoan and delayLoan hand nothing to anyone, whether
\* their sink sends, fails, throws or is not called.
C15_NotifyNeverAffects ==
    [][\A c \in CallIds :
          LET ok == [op |-> "createLoan", loan |-> calls[c].loan,
                     fecha |-> NoDate, result |-> "ok"]
          IN (Moves(c) /\ calls[c].pc \in {"notify", "lookups", "admins",
                                           "immediate", "mailing"})
             => /\ loans' = loans
                /\ items' = items
                /\ calls[c].pc = "notify"
                   => calls'[c].pc = "lookups" /\ reply' = NoReply
                /\ calls[c].pc = "lookups"
                   => \/ calls'[c].pc = "admins" /\ reply' = NoReply
                      \/ calls'[c] = IdleCall /\ reply' = ok
                /\ calls[c].pc = "admins"
                   => calls'[c] = IdleCall /\ reply' = ok
                /\ calls[c].pc = "immediate"
                   => /\ reply' = NoReply
                      /\ calls'[c] = IdleCall \/ calls'[c].pc = "mailing"
                /\ calls[c].pc = "mailing"
                   => reply' = NoReply /\ calls'[c] = IdleCall]_vars

\* the sink of an approval has thrown: the loan is approved and its units
\* are deducted all the same
C15_Witness ==
    /\ sink.op = "approveLoan"
    /\ sink.outcome = "threw"
    /\ \E l \in 1..Len(loans) :
          /\ loans[l].estado = "Aprobado"
          /\ items[loans[l].item].cantidad_disponible
                = inicial[loans[l].item] - loans[l].cantidad_prestamo

\* C16: the notification sink is called only by the callback an operation
\* left behind when it returned success to its caller, never by a step of
\* an operation that has yet to return.
C16_SinkAfterReturn ==
    [][sink'.outcome = "called"
       => \E c \in CallIds : Moves(c) /\ calls[c].pc = "immediate"]_vars

\* C17: listLoans gives a caller who is not Admin the loans whose usuario is
\* the caller, and an Admin all loans, in both cases those in the estado asked
\* for if one is, the last created first; getLoanById gives a loan to an Admin
\* and to its usuario, and fails with Forbidden for any other caller.
C17_ReadIsolation ==
    /\ reply.op = "listLoans"
       => /\ reply.result = "ok"
          /\ \A l \in LoanIds :
                (\E k \in 1..Len(view.loans) : view.loans[k] = l)
                <=> /\ LoanExists(l)
                    /\ view.caller.rol = "Admin"
                          \/ loans[l].usuario = view.caller.id
                    /\ view.filtro = NoEstado
                          \/ loans[l].estado = view.filtro
          /\ \A j \in 1..Len(view.loans), k \in 1..Len(view.loans) :
                j < k => /\ view.loans[j] # view.loans[k]
                         /\ CreatedAt(view.loans[j])
                               >= CreatedAt(view.loans[k])
    /\ (reply.op = "getLoanById" /\ LoanExists(reply.loan))
       => IF view.caller.rol = "Admin"
             \/ loans[reply.loan].usuario = view.caller.id
          THEN reply.result = "ok" /\ view.loans = <<reply.loan>>
          ELSE reply.result = "Forbidden" /\ view.loans = <<>>
    /\ (reply.op = "getLoanById" /\ ~LoanExists(reply.loan))
       => reply.result = "NotFound" /\ view.loans = <<>>

\* C18: the first step of createLoan adds a loan in Pendiente with no dates
\* and createLoan then returns it without error, whatever the quantity and
\* the Item's cantidad_disponible; no step of createLoan changes an Item, and
\* a step that lowers a cantidad_disponible is the return of an approveLoan.
C18_CreateChecksNoStock ==
    [][/\ \A c \in CallIds :
             (Free(c) /\ calls'[c].op = "createLoan")
             => /\ Len(loans') = Len(loans) + 1
                /\ loans'[Len(loans')].estado = "Pendiente"
                /\ loans'[Len(loans')].fecha_prestamo = NoDate
                /\ loans'[Len(loans')].fecha_estimada = NoDate
                /\ \A l \in 1..Len(loans) : loans'[l] = loans[l]
                /\ items' = items
       /\ reply'.op = "createLoan"
          => /\ reply'.result = "ok"
             /\ items' = items
             /\ loans' = loans
       /\ \A i \in DOMAIN items :
             items'[i].cantidad_disponible < items[i].cantidad_disponible
             => reply'.op = "approveLoan" /\ reply'.result = "ok"]_vars

\* C19: a sendEmail call calls the provider at most 3 times, waits to try
\* again only after a 429 or an ETIMEDOUT thrown by the provider, never tries
\* again and never calls the provider when the address is invalid or the API
\* key is missing, ends with a success or a failure result, and does end.
C19_SendEmailBounded ==
    /\ [](\A m \in MailIds :
            LET mail == mails[m] IN
            mail.pc # "idle" =>
            /\ mail.attempts <= 3
            /\ mail.attempts <= (DefaultRetries - mail.retries) + 1
            /\ mail.pc = "backoff" => mail.error \in {"429", "ETIMEDOUT"}
            /\ mail.retries < DefaultRetries
               => mail.attempts > 0 /\ mail.key /\ Contains(mail.to, "@")
            /\ mail.error \in {"invalid", "nokey"}
               => /\ mail.pc = "done"
                  /\ mail.attempts = 0
                  /\ mail.retries = DefaultRetries
            /\ mail.pc = "done"
               => /\ mail.result \in {"success", "failure"}
                  /\ mail.result = "success" <=> mail.error = "none")
    /\ \A m \in MailIds : (mails[m].pc = "try") ~> (mails[m].pc = "done")

\* a sendEmail call has given up after its third call of the provider
C19_Witness ==
    \E m \in MailIds :
       /\ mails[m].pc = "done"
       /\ mails[m].result = "failure"
       /\ mails[m].attempts = 3
       /\ mails[m].retries = 0
       /\ mails[m].error = "429"

\* C20: the sinks of the approval, return and deferral notifications and of
\* the notification of the administrators are called only with addresses on
\* file that hold an "@"; sendEmail calls the provider for no address
\* without one, and ends such a call with a failure result.
C20_NoMailToInvalid ==
    /\ \A e \in sink.to : e \in sink.on_file /\ Contains(e, "@")
    /\ sink.outcome = "called" /\ sink.op \in BorrowerOps => sink.to # {}
    /\ \A m \in MailIds :
          /\ mails[m].attempts > 0 => Contains(mails[m].to, "@")
          /\ (mails[m].pc = "done" /\ ~Contains(mails[m].to, "@"))
             => mails[m].result = "failure" /\ mails[m].attempts = 0

\* the administrators were notified of a new loan: the one without an "@"
\* was left out, the other one's message is with sendEmail
C20_Witness ==
    /\ sink.op = "createLoan"
    /\ sink.on_file = {<<"a">>, <<"a", "@", "b">>}
    /\ sink.to = {<<"a", "@", "b">>}
    /\ mails[1].pc = "try"
    /\ mails[1].to = <<"a", "@", "b">>
    /\ mails[2].pc = "idle"

\* C21: in every quiescent state, for every Item, the quantities of its loans
\* in Aprobado or Aplazado add up to at most cantidad_total_stock less
\* cantidad_disponible.
C21_NoOverLending ==
    Quiescent =>
       \A i \in DOMAIN items :
          Lent(i) <= items[i].cantidad_total_stock
                       - items[i].cantidad_disponible

\* C22: approveLoan keeps the Item as it read it until it writes it: the
\* value it writes is the cantidad_disponible it read less cantidad_prestamo,
\* which is never negative, and its last step never puts the loan back to
\* Pendiente nor fails with InsufficientStock, whatever the other calls wrote
\* in between.
C22_CompensationNeverRuns ==
    [][\A c \in CallIds :
          LET l == calls[c].loan
              i == calls[c].doc.item
              q == calls[c].doc.cantidad_prestamo
          IN (Moves(c) /\ calls[c].op = "approveLoan")
             => /\ (calls[c].pc = "findItem" /\ calls'[c].pc = "saveLoan")
                   => /\ calls'[c].item = items[i]
                      /\ items[i].cantidad_disponible >= q
                /\ calls[c].pc = "saveLoan"
                   => calls'[c].item = calls[c].item
                /\ calls[c].pc = "settle"
                   => /\ calls[c].item.cantidad_disponible - q >= 0
                      /\ items'[i].cantidad_disponible
                            = calls[c].item.cantidad_disponible - q
                      /\ loans' = loans
                      /\ reply' = [op |-> "approveLoan", loan |-> l,
                                    fecha |-> calls[c].fecha, result |-> "ok"]]_vars

\* an approveLoan has returned although the Item held fewer units than the
\* loan asks for when it came to write it: more units are out on loan than
\* the item ever had available
C22_Witness ==
    /\ reply.op = "approveLoan"
    /\ reply.result = "ok"
    /\ loans[reply.loan].estado = "Aprobado"
    /\ Lent(loans[reply.loan].item) > inicial[loans[reply.loan].item]

RECURSIVE AskedUpTo(_, _)
AskedUpTo(n, i) ==
    IF n = 0 THEN 0
    ELSE AskedUpTo(n - 1, i)
         + (IF loans[n].item = i THEN loans[n].cantidad_prestamo ELSE 0)

\* the units of item i asked for by all its loans, whatever their state
Asked(i) == AskedUpTo(Len(loans), i)

\* C23: every loan is charged to its Item at most once: in every state the
\* Item's cantidad_disponible is no lower than the availability it started
\* with less one cantidad_prestamo for each of its loans.
C23_ChargedOnce ==
    \A i \in DOMAIN items :
       items[i].cantidad_disponible >= inicial[i] - Asked(i)

\* C24: in every quiescent state, an Item whose loans are all in Pendiente or
\* Rechazado, one at least in Rechazado, has the cantidad_disponible it
\* started with: a rejected loan holds no units.
C24_RejectedHoldsNoStock ==
    Quiescent =>
       \A i \in DOMAIN items :
          (/\ \A l \in 1..Len(loans) :
                 loans[l].item = i
                 => loans[l].estado \in {"Pendiente", "Rechazado"}
           /\ \E l \in 1..Len(loans) :
                 loans[l].item = i /\ loans[l].estado = "Rechazado")
          => items[i].cantidad_disponible = inicial[i]

\* the operations that validate before they write, and their errors
Validating == {"approveLoan", "rejectLoan", "returnLoan", "delayLoan",
               "getLoanById"}
ValidationErrors == {"NotFound", "InvalidState", "ValidationError",
                     "Forbidden", "InsufficientStock"}

\* C25: a step in which approveLoan, rejectLoan, returnLoan, delayLoan or
\* getLoanById fails with NotFound, InvalidState, ValidationError, Forbidden
\* or InsufficientStock leaves the loans and the items as they were, calls
\* no sink and queues no callback; and returnLoan on a loan in Aprobado
\* whose Item is missing fails with NotFound, the loan still in Aprobado.
C25_FailedValidationWritesNothing ==
    [][/\ (reply'.op \in Validating /\ reply'.result \in ValidationErrors)
          => /\ loans' = loans
             /\ items' = items
             /\ sink' = NoSink
             /\ \A c \in CallIds :
                   calls'[c].pc = "immediate" => calls[c].pc = "immediate"
       /\ \A c \in CallIds :
             (/\ Moves(c)
              /\ calls[c].op = "returnLoan"
              /\ calls[c].pc = "findItem"
              /\ loans[calls[c].loan].estado = "Aprobado"
              /\ ~ItemExists(calls[c].doc.item))
             => /\ reply' = Reply(calls[c], "NotFound")
                /\ loans'[calls[c].loan].estado = "Aprobado"
                /\ calls'[c] = IdleCall]_vars

C25_Witness ==
    /\ reply.op = "returnLoan"
    /\ reply.result = "NotFound"
    /\ LoanExists(reply.loan)
    /\ loans[reply.loan].estado = "Aprobado"
    /\ ~ItemExists(loans[reply.loan].item)

====
